---------------------------- MODULE Spec2Model ----------------------------
(***************************************************************************)
(* Model of the risk-scoring and population-filtering engine of the        *)
(* Alzheimer's dashboard (src/app_pages/dashboard.py).                      *)
(*                                                                         *)
(* Units.  Patient attributes that are numbers are kept in tenths          *)
(* (Patient_Age 85 is 850, BMI 18.5 is 185).  Risk scores are kept in      *)
(* thousandths (3.5 points is 3500), one decimal place finer than          *)
(* round(risk_score, 2) keeps, so that the rounding is an operation that   *)
(* does something.                                                         *)
(***************************************************************************)
EXTENDS Integers, Sequences, FiniteSets, TLC

VARIABLES
    row,        \* the patient record handed to calculate_risk_score
    result,     \* what calculate_risk_score(row) did, or NotScored
    tier,       \* categorize_risk of the returned score, or "-"
    edits,      \* how many attribute changes led to this row
    prev_row,   \* the record scored before this one
    prev_score, \* and what the function raised or returned on it
    df,         \* the table loaded when the module is imported
    widgets,    \* the value of each filter widget, by position in Filters
    outcome,    \* how the last run of the page ended ("init": not run yet)
    headline,   \* the headline statistics of the last run
    filtered_df, \* the filtered table of the last run, derived columns included
    returned,   \* the table risk_assessment_dashboard returned
    summary,    \* the key metrics and tier counts of the last run
    correlation, \* what the correlation section of the last run showed
    session_state, \* st.session_state of the browser session: key -> value
    query_params,  \* the query string of the URL: parameter -> text
    page_selector, \* the navigation selectbox on the screen, or NoWidget
    last_run       \* what the last pass of app.py did, or NoRun

score_vars == <<row, result, tier, edits, prev_row, prev_score>>

page_vars == <<df, widgets, outcome, headline, filtered_df, returned, summary,
              correlation>>

nav_vars == <<session_state, query_params, page_selector, last_run>>

vars == <<row, result, tier, edits, prev_row, prev_score,
          df, widgets, outcome, headline, filtered_df, returned, summary,
          correlation, session_state, query_params, page_selector, last_run>>

-----------------------------------------------------------------------------
(* Cell values of the table.  A cell is a number (int or float), NaN, a    *)
(* string or a bool; every cell carries the three fields so that any two   *)
(* cells can be compared.                                                  *)

IntV(x)   == [t |-> "int",   n |-> x, s |-> ""]
FloatV(x) == [t |-> "float", n |-> x, s |-> ""]
StrV(x)   == [t |-> "str",   n |-> 0, s |-> x]
BoolV(b)  == [t |-> "bool",  n |-> IF b THEN 10 ELSE 0, s |-> ""]
NaN       == [t |-> "nan",   n |-> 0, s |-> ""]

IsNumber(v) == v.t \in {"int", "float", "bool"}

\* pd.notna(v)
notna(v) == v.t # "nan"

\* Python's ordering comparisons of a cell with a numeric literal: every
\* comparison with NaN is False; a string operand raises TypeError, which the
\* callers test for with IsNumber/NaN before comparing.
Ge(v, k) == v.t # "nan" /\ v.n >= k
Gt(v, k) == v.t # "nan" /\ v.n > k
Le(v, k) == v.t # "nan" /\ v.n <= k
Lt(v, k) == v.t # "nan" /\ v.n < k

RECURSIVE DecStr(_)
\* str() of a non-negative integer
DecStr(k) ==
    LET d == <<"0", "1", "2", "3", "4", "5", "6", "7", "8", "9">>[(k % 10) + 1]
    IN  IF k < 10 THEN d ELSE DecStr(k \div 10) \o d

\* str.lower() on the strings the table can hold
lower(s) ==
    CASE s \in {"Yes", "YES", "yes"}    -> "yes"
      [] s \in {"No", "NO", "no"}       -> "no"
      [] s \in {"True", "TRUE", "true"} -> "true"
      [] s \in {"False", "false"}       -> "false"
      [] OTHER                          -> s

\* str(v).lower() as used by the flag tests of calculate_risk_score
str_lower(v) ==
    CASE v.t = "str"   -> lower(v.s)
      [] v.t = "int"   -> DecStr(v.n \div 10)
      [] v.t = "float" -> DecStr(v.n \div 10) \o "." \o DecStr(v.n % 10)
      [] v.t = "bool"  -> IF v.n = 10 THEN "true" ELSE "false"
      [] v.t = "nan"   -> "nan"

\* str(row[c]).lower() in ['yes', '1', 'true']
IsYes(v) == str_lower(v) \in {"yes", "1", "true"}

\* "c" in row.index
Has(r, c) == c \in DOMAIN r

-----------------------------------------------------------------------------
(* calculate_risk_score.  Each factor is one block of the function: it     *)
(* either adds points to risk_score or raises.  Points are thousandths.    *)

Pts(p)   == [err |-> "none", pts |-> p]
Raise(e) == [err |-> e, pts |-> 0]

\* row[c] used as an operand of <, <=, >, >= against a number
Operand(r, c) ==
    IF ~Has(r, c) THEN "KeyError"
    ELSE IF r[c].t = "str" THEN "TypeError"
    ELSE "none"

\* AgeRisk with the top bracket starting after 85 instead of at 85
AgeRisk_After85(r) ==
    IF Operand(r, "Patient_Age") # "none" THEN Raise(Operand(r, "Patient_Age"))
    ELSE IF Gt(r["Patient_Age"], 850) THEN Pts(3500)
    ELSE IF Ge(r["Patient_Age"], 800) THEN Pts(3000)
    ELSE IF Ge(r["Patient_Age"], 750) THEN Pts(2500)
    ELSE IF Ge(r["Patient_Age"], 700) THEN Pts(2000)
    ELSE Pts(1000)

\* Age risk (25% weight)
AgeRisk(r) ==
    IF Operand(r, "Patient_Age") # "none" THEN Raise(Operand(r, "Patient_Age"))
    ELSE IF Ge(r["Patient_Age"], 850) THEN Pts(3500)
    ELSE IF Ge(r["Patient_Age"], 800) THEN Pts(3000)
    ELSE IF Ge(r["Patient_Age"], 750) THEN Pts(2500)
    ELSE IF Ge(r["Patient_Age"], 700) THEN Pts(2000)
    ELSE Pts(1000)

\* MMSERisk with the borderline bracket closed at 27 instead of open
MMSERisk_Upto27(r) ==
    IF Operand(r, "MMSE") # "none" THEN Raise(Operand(r, "MMSE"))
    ELSE IF Lt(r["MMSE"], 100) THEN Pts(3500)
    ELSE IF Lt(r["MMSE"], 180) THEN Pts(3000)
    ELSE IF Lt(r["MMSE"], 240) THEN Pts(2000)
    ELSE IF Le(r["MMSE"], 270) THEN Pts(1000)
    ELSE Pts(500)

\* MMSE risk (25% weight)
MMSERisk(r) ==
    IF Operand(r, "MMSE") # "none" THEN Raise(Operand(r, "MMSE"))
    ELSE IF Lt(r["MMSE"], 100) THEN Pts(3500)
    ELSE IF Lt(r["MMSE"], 180) THEN Pts(3000)
    ELSE IF Lt(r["MMSE"], 240) THEN Pts(2000)
    ELSE IF Lt(r["MMSE"], 270) THEN Pts(1000)
    ELSE Pts(500)

\* FunctionalRisk with the points of the two middle brackets exchanged
FunctionalRisk_Exchanged(r) ==
    IF Has(r, "Functional_Assessment") /\ notna(r["Functional_Assessment"])
    THEN IF Operand(r, "Functional_Assessment") # "none" THEN Raise("TypeError")
         ELSE IF Le(r["Functional_Assessment"], 20) THEN Pts(2000)
         ELSE IF Le(r["Functional_Assessment"], 40) THEN Pts(1000)
         ELSE IF Le(r["Functional_Assessment"], 60) THEN Pts(1500)
         ELSE Pts(500)
    ELSE Pts(0)

\* Functional Assessment risk (15% weight)
FunctionalRisk(r) ==
    IF Has(r, "Functional_Assessment") /\ notna(r["Functional_Assessment"])
    THEN IF Operand(r, "Functional_Assessment") # "none" THEN Raise("TypeError")
         ELSE IF Le(r["Functional_Assessment"], 20) THEN Pts(2000)
         ELSE IF Le(r["Functional_Assessment"], 40) THEN Pts(1500)
         ELSE IF Le(r["Functional_Assessment"], 60) THEN Pts(1000)
         ELSE Pts(500)
    ELSE Pts(0)

\* Activities of Daily Living risk (10% weight)
ADLRisk(r) ==
    IF Has(r, "Activities_Of_Daily_Living") /\ notna(r["Activities_Of_Daily_Living"])
    THEN IF Operand(r, "Activities_Of_Daily_Living") # "none" THEN Raise("TypeError")
         ELSE IF Le(r["Activities_Of_Daily_Living"], 20) THEN Pts(1500)
         ELSE IF Le(r["Activities_Of_Daily_Living"], 50) THEN Pts(1000)
         ELSE Pts(300)
    ELSE Pts(0)

\* Depression risk (8% weight)
DepressionRisk(r) ==
    IF Has(r, "Depression")
    THEN IF IsYes(r["Depression"]) THEN Pts(1200) ELSE Pts(200)
    ELSE Pts(0)

\* Memory Complaints risk (8% weight)
MemoryRisk(r) ==
    IF Has(r, "Memory_Complaints")
    THEN IF IsYes(r["Memory_Complaints"]) THEN Pts(1200) ELSE Pts(100)
    ELSE Pts(0)

\* Behavioral Problems, Personality Changes, Difficulty Completing Tasks
\* (5% weight each), Cardiovascular Disease (3%), Smoking (2%): points only
\* when the flag reads as yes
FlagRisk(r, c, p) ==
    IF Has(r, c) /\ IsYes(r[c]) THEN Pts(p) ELSE Pts(0)

\* BMI risk (4% weight)
BMIRisk(r) ==
    IF Operand(r, "BMI") # "none" THEN Raise(Operand(r, "BMI"))
    ELSE IF Gt(r["BMI"], 350) \/ Lt(r["BMI"], 185) THEN Pts(800)
    ELSE IF Gt(r["BMI"], 300) \/ Lt(r["BMI"], 200) THEN Pts(500)
    ELSE Pts(200)

\* Physical Activity risk (3% weight)
ActivityRisk(r) ==
    IF Has(r, "Physical_Activity") /\ notna(r["Physical_Activity"])
    THEN IF Operand(r, "Physical_Activity") # "none" THEN Raise("TypeError")
         ELSE IF Lt(r["Physical_Activity"], 20) THEN Pts(600)
         ELSE IF Lt(r["Physical_Activity"], 40) THEN Pts(400)
         ELSE Pts(100)
    ELSE Pts(0)

\* Diet Quality risk (2% weight)
DietRisk(r) ==
    IF Has(r, "Diet_Quality") /\ notna(r["Diet_Quality"])
    THEN IF Operand(r, "Diet_Quality") # "none" THEN Raise("TypeError")
         ELSE IF Lt(r["Diet_Quality"], 40) THEN Pts(400)
         ELSE IF Lt(r["Diet_Quality"], 60) THEN Pts(200)
         ELSE Pts(0)
    ELSE Pts(0)

\* The governing attribute of each factor, in the order the function adds them
Factors ==
    << "Patient_Age", "MMSE", "Functional_Assessment",
       "Activities_Of_Daily_Living", "Depression", "Memory_Complaints",
       "Behavioral_Problems", "Personality_Changes",
       "Difficulty_Completing_Tasks", "BMI", "Cardiovascular_Disease",
       "Physical_Activity", "Smoking", "Diet_Quality" >>

FactorRisk(r, c) ==
    CASE c = "Patient_Age"                 -> AgeRisk(r)
      [] c = "MMSE"                        -> MMSERisk(r)
      [] c = "Functional_Assessment"       -> FunctionalRisk(r)
      [] c = "Activities_Of_Daily_Living"  -> ADLRisk(r)
      [] c = "Depression"                  -> DepressionRisk(r)
      [] c = "Memory_Complaints"           -> MemoryRisk(r)
      [] c = "Behavioral_Problems"         -> FlagRisk(r, c, 800)
      [] c = "Personality_Changes"         -> FlagRisk(r, c, 800)
      [] c = "Difficulty_Completing_Tasks" -> FlagRisk(r, c, 800)
      [] c = "BMI"                         -> BMIRisk(r)
      [] c = "Cardiovascular_Disease"      -> FlagRisk(r, c, 600)
      [] c = "Physical_Activity"           -> ActivityRisk(r)
      [] c = "Smoking"                     -> FlagRisk(r, c, 400)
      [] c = "Diet_Quality"                -> DietRisk(r)

RECURSIVE SumPts(_, _)
SumPts(steps, i) == IF i = 0 THEN 0 ELSE steps[i].pts + SumPts(steps, i - 1)

\* round2 that returns its argument, as if the return were not rounded
round2_Omitted(m) == m

\* round(risk_score, 2): the nearest hundredth, in thousandths
round2(m) == ((m + 5) \div 10) * 10

\* What binary floating point can add to the exact sum of the increments
\* (far below one thousandth; one thousandth here)
FloatNoise == {-1, 0, 1}

\* The end of the function, given what each block did: the first block that
\* raised ends it; otherwise the rounded sum is returned (value).  unrounded
\* is risk_score before the rounding and added[i] what the block of
\* Factors[i] added to it.
ScoreOf(steps, noise) ==
    LET failed == {i \in 1..Len(Factors) : steps[i].err # "none"}
        first  == CHOOSE i \in failed : \A j \in failed : i <= j
        total  == SumPts(steps, Len(Factors)) + noise
    IN  IF failed # {}
        THEN [raised |-> steps[first].err, value |-> 0, unrounded |-> 0,
              added |-> [i \in 1..Len(Factors) |-> 0]]
        ELSE [raised    |-> "none",
              value     |-> round2(total),
              unrounded |-> total,
              added     |-> [i \in 1..Len(Factors) |-> steps[i].pts]]

calculate_risk_score(r, noise) ==
    ScoreOf([i \in 1..Len(Factors) |-> FactorRisk(r, Factors[i])], noise)

\* The classifier with a fourth label for scores of 15 and more
categorize_risk_FourTiers(score) ==
    IF score >= 15000 THEN "Very High Risk"
    ELSE IF score >= 9000 THEN "High Risk"
    ELSE IF score >= 6000 THEN "Medium Risk"
    ELSE "Low Risk"

\* The classifier with a score of exactly 9.0 left in the middle tier
categorize_risk_Above9(score) ==
    IF score > 9000 THEN "High Risk"
    ELSE IF score >= 6000 THEN "Medium Risk"
    ELSE "Low Risk"

\* The ranges the methodology text of the page gives for the tiers:
\* Low Risk (0-5.9), Medium Risk (6-8.9), High Risk (9+); a score in none of
\* them has no documented tier
DocumentedTier(score) ==
    IF score >= 0 /\ score <= 5900 THEN "Low Risk"
    ELSE IF score >= 6000 /\ score <= 8900 THEN "Medium Risk"
    ELSE IF score >= 9000 THEN "High Risk"
    ELSE "undocumented"

categorize_risk(score) ==
    IF score >= 9000 THEN "High Risk"
    ELSE IF score >= 6000 THEN "Medium Risk"
    ELSE "Low Risk"

-----------------------------------------------------------------------------
(* Patient records the scorer is applied to.                               *)

\* The most attribute changes made to a starting record
MaxEdits == 1

\* Only the three attributes the function reads unconditionally
MinimalRow ==
    [c \in {"Patient_Age", "MMSE", "BMI"} |->
        CASE c = "Patient_Age" -> IntV(720)
          [] c = "MMSE"        -> FloatV(250)
          [] c = "BMI"         -> FloatV(220)]

OptionalNumeric ==
    {"Functional_Assessment", "Activities_Of_Daily_Living",
     "Physical_Activity", "Diet_Quality"}

FlagColumns ==
    {"Depression", "Memory_Complaints", "Behavioral_Problems",
     "Personality_Changes", "Difficulty_Completing_Tasks",
     "Cardiovascular_Disease", "Smoking"}

ScoredColumns == {"Patient_Age", "MMSE", "BMI"} \cup OptionalNumeric \cup FlagColumns

\* Every scored attribute present, nothing alarming
HealthyRow ==
    [c \in ScoredColumns |->
        CASE c = "Patient_Age"      -> IntV(650)
          [] c = "MMSE"             -> FloatV(290)
          [] c = "BMI"              -> FloatV(240)
          [] c \in OptionalNumeric  -> FloatV(80)
          [] c \in FlagColumns      -> StrV("No")]

\* Every scored attribute present, each in its most severe bucket
SevereRow ==
    [c \in ScoredColumns |->
        CASE c = "Patient_Age"      -> IntV(880)
          [] c = "MMSE"             -> FloatV(60)
          [] c = "BMI"              -> FloatV(380)
          [] c \in OptionalNumeric  -> FloatV(10)
          [] c \in FlagColumns      -> StrV("Yes")]

\* The record of the specification's first scenario
ScenarioRow ==
    [c \in {"Patient_Age", "MMSE", "BMI", "Functional_Assessment",
            "Cholesterol_Total"} |->
        CASE c = "Patient_Age"           -> IntV(850)
          [] c = "MMSE"                  -> FloatV(80)
          [] c = "BMI"                   -> FloatV(220)
          [] c = "Functional_Assessment" -> FloatV(50)
          [] c = "Cholesterol_Total"     -> FloatV(2000)]

BaseRows == {MinimalRow, HealthyRow, SevereRow, ScenarioRow}

\* The values an attribute is changed to: each threshold of its block, a
\* value beyond the outermost thresholds, and the invalid cells
CellValues(c) ==
    CASE c = "Patient_Age" ->
            {IntV(690), IntV(700), IntV(750), IntV(800), IntV(850), NaN, StrV("unknown")}
      [] c = "MMSE" ->
            {FloatV(99), FloatV(100), FloatV(180), FloatV(240), FloatV(260),
             FloatV(270), NaN, StrV("unknown")}
      [] c = "BMI" ->
            {FloatV(180), FloatV(185), FloatV(200), FloatV(300), FloatV(350),
             FloatV(360), NaN, StrV("unknown")}
      [] c = "Functional_Assessment" ->
            {FloatV(20), FloatV(40), FloatV(60), FloatV(70), NaN}
      [] c = "Activities_Of_Daily_Living" ->
            {FloatV(20), FloatV(50), FloatV(60), NaN}
      [] c = "Physical_Activity" ->
            {FloatV(10), FloatV(20), FloatV(40), NaN}
      [] c = "Diet_Quality" ->
            {FloatV(30), FloatV(40), FloatV(60), NaN}
      [] c = "Depression" ->
            {StrV("Yes"), StrV("No"), StrV("yes"), StrV("NO"), StrV("1"), StrV("0"),
             IntV(10), IntV(0), FloatV(10), FloatV(0), NaN}
      [] c \in FlagColumns ->
            {StrV("Yes"), StrV("No"), IntV(10), IntV(0), NaN}

\* r with column c set to v (added when r has no such column)
WithCell(r, c, v) ==
    [d \in DOMAIN r \cup {c} |-> IF d = c THEN v ELSE r[d]]

\* r without column c
WithoutColumn(r, c) == [d \in DOMAIN r \ {c} |-> r[d]]

NotScored ==
    [raised |-> "unscored", value |-> 0, unrounded |-> 0,
     added |-> [i \in 1..Len(Factors) |-> 0]]

\* What the caller of the function sees of a result
Outcome(res) == [raised |-> res.raised, value |-> res.value]

-----------------------------------------------------------------------------
(* The dashboard page: dashboard_body and risk_assessment_dashboard.       *)
(* A table is a sequence of records that all have the same columns.        *)

All == StrV("All")

\* df.columns (of a table with at least one row; the model keeps no columns
\* for an empty table)
Columns(t) == IF Len(t) = 0 THEN {} ELSE DOMAIN t[1]

\* The columns the page reads without asking whether they exist
RequiredColumns ==
    {"Gender", "Ethnicity", "Patient_Age", "Depression", "Smoking", "BMI", "MMSE"}

\* The filters in the order risk_assessment_dashboard applies them.  kind is
\* "selectbox" or "slider"; guarded says whether the code asks for the column
\* before it builds and applies the filter.
Filters ==
    << [col |-> "Gender",                      kind |-> "selectbox", guarded |-> FALSE],
       [col |-> "Ethnicity",                   kind |-> "selectbox", guarded |-> FALSE],
       [col |-> "Patient_Age",                 kind |-> "slider",    guarded |-> FALSE],
       [col |-> "Cardiovascular_Disease",      kind |-> "selectbox", guarded |-> TRUE],
       [col |-> "Depression",                  kind |-> "selectbox", guarded |-> FALSE],
       [col |-> "Memory_Complaints",           kind |-> "selectbox", guarded |-> TRUE],
       [col |-> "Behavioral_Problems",         kind |-> "selectbox", guarded |-> TRUE],
       [col |-> "Personality_Changes",         kind |-> "selectbox", guarded |-> TRUE],
       [col |-> "Difficulty_Completing_Tasks", kind |-> "selectbox", guarded |-> TRUE],
       [col |-> "Smoking",                     kind |-> "selectbox", guarded |-> FALSE],
       [col |-> "BMI",                         kind |-> "slider",    guarded |-> FALSE],
       [col |-> "Physical_Activity",           kind |-> "slider",    guarded |-> TRUE],
       [col |-> "Alcohol_Consumption",         kind |-> "slider",    guarded |-> TRUE],
       [col |-> "Diet_Quality",                kind |-> "slider",    guarded |-> TRUE],
       [col |-> "MMSE",                        kind |-> "slider",    guarded |-> FALSE],
       [col |-> "Functional_Assessment",       kind |-> "slider",    guarded |-> TRUE],
       [col |-> "Activities_Of_Daily_Living",  kind |-> "slider",    guarded |-> TRUE],
       [col |-> "Diagnosis",                   kind |-> "selectbox", guarded |-> TRUE] >>

FilterIndex == 1..Len(Filters)

\* A widget's value: a selectbox holds a cell (sel), a slider a pair (lo, hi);
\* a slider the page did not build is None (on = FALSE)
Selected(v)   == [on |-> TRUE,  sel |-> v,   lo |-> 0, hi |-> 0]
Range(lo, hi) == [on |-> TRUE,  sel |-> All, lo |-> lo, hi |-> hi]
None          == [on |-> FALSE, sel |-> All, lo |-> 0, hi |-> 0]

\* The numbers of column c (min() and max() skip NaN)
Numbers(t, c) == {t[i][c].n : i \in {j \in 1..Len(t) : IsNumber(t[j][c])}}

Min(S) == CHOOSE x \in S : \A y \in S : x <= y
Max(S) == CHOOSE x \in S : \A y \in S : x >= y

\* int(x) of a non-negative number kept in tenths
int(x) == (x \div 10) * 10

\* df[c].unique()
unique(t, c) == {t[i][c] : i \in 1..Len(t)}

\* The options of the selectbox of filter f: "All" and the column's values
Options(t, f) ==
    IF f.col \in Columns(t) THEN {All} \cup unique(t, f.col) ELSE {All}

\* The bounds of the slider of filter f, which are also its default value
SliderBounds(t, f) ==
    IF f.col \notin Columns(t) THEN None
    ELSE IF f.col = "Patient_Age"
         THEN Range(int(Min(Numbers(t, f.col))), int(Max(Numbers(t, f.col))))
         ELSE Range(Min(Numbers(t, f.col)), Max(Numbers(t, f.col)))

\* Every widget at the value it has when the page is first drawn
DefaultWidgets(t) ==
    [i \in FilterIndex |->
        IF Filters[i].kind = "selectbox" THEN Selected(All)
        ELSE SliderBounds(t, Filters[i])]

\* pandas' column == value on one cell
PyEq(a, b) ==
    IF a.t = "nan" \/ b.t = "nan" THEN FALSE
    ELSE IF a.t = "str" \/ b.t = "str" THEN a.t = b.t /\ a.s = b.s
    ELSE a.n = b.n

\* The filters with the upper end of a range left out
Keeps_BelowUpper(t, f, w, r) ==
    IF f.kind = "selectbox"
    THEN IF w.sel # All /\ (f.guarded => f.col \in Columns(t))
         THEN PyEq(r[f.col], w.sel)
         ELSE TRUE
    ELSE IF (f.guarded => (w.on /\ f.col \in Columns(t)))
         THEN Ge(r[f.col], w.lo) /\ Lt(r[f.col], w.hi)
         ELSE TRUE

\* The filters with an age range that also leaves out the youngest patient
\* of the table it is applied to
Keeps_AboveYoungest(t, f, w, r) ==
    IF f.kind = "selectbox"
    THEN IF w.sel # All /\ (f.guarded => f.col \in Columns(t))
         THEN PyEq(r[f.col], w.sel)
         ELSE TRUE
    ELSE IF (f.guarded => (w.on /\ f.col \in Columns(t)))
         THEN /\ Ge(r[f.col], w.lo) /\ Le(r[f.col], w.hi)
              /\ f.col = "Patient_Age" => Gt(r[f.col], Min(Numbers(t, f.col)))
         ELSE TRUE

\* Whether the filter of widget value w on column f.col keeps record r
Keeps(t, f, w, r) ==
    IF f.kind = "selectbox"
    THEN IF w.sel # All /\ (f.guarded => f.col \in Columns(t))
         THEN PyEq(r[f.col], w.sel)
         ELSE TRUE
    ELSE IF (f.guarded => (w.on /\ f.col \in Columns(t)))
         THEN Ge(r[f.col], w.lo) /\ Le(r[f.col], w.hi)
         ELSE TRUE

RECURSIVE ApplyFilters_FromSource(_, _, _)
\* The filters with each mask taken on df instead of on what the filters
\* before it left, so that the last one applied decides
ApplyFilters_FromSource(t, w, n) ==
    IF n = 0 THEN 1..Len(t)
    ELSE {j \in 1..Len(t) : Keeps(t, Filters[n], w[n], t[j])}

RECURSIVE ApplyFilters(_, _, _)
\* The index of filtered_df after the first n filters: that of df.copy(),
\* narrowed by each filter in turn
ApplyFilters(t, w, n) ==
    IF n = 0 THEN 1..Len(t)
    ELSE {j \in ApplyFilters(t, w, n - 1) : Keeps(t, Filters[n], w[n], t[j])}

RECURSIVE Rows(_, _, _)
\* The records of t whose position is in idx, from position j on, in order
Rows(t, idx, j) ==
    IF j > Len(t) THEN <<>>
    ELSE (IF j \in idx THEN <<t[j]>> ELSE <<>>) \o Rows(t, idx, j + 1)

\* The rule with the functional assessment critical from 2 down
EarlyDetection_Upto2(r) ==
    \/ Lt(r["MMSE"], 180)
    \/ Gt(r["Patient_Age"], 750)
    \/ Gt(r["BMI"], 350)
    \/ Le(r["Functional_Assessment"], 20)

\* The rule with a cognitive score of exactly 18 counted as critical
EarlyDetection_Upto18(r) ==
    \/ Le(r["MMSE"], 180)
    \/ Gt(r["Patient_Age"], 750)
    \/ Gt(r["BMI"], 350)
    \/ Le(r["Functional_Assessment"], 30)

\* The clinical decision thresholds the guide of the page lists: MMSE score
\* < 18, age > 75 years, BMI > 35, functional assessment <= 2
DocumentedThresholds(r) ==
    \/ Lt(r["MMSE"], 180)
    \/ Gt(r["Patient_Age"], 750)
    \/ Gt(r["BMI"], 350)
    \/ Le(r["Functional_Assessment"], 20)

\* The early-detection rule on one record of the filtered table
EarlyDetection(r) ==
    \/ Lt(r["MMSE"], 180)
    \/ Gt(r["Patient_Age"], 750)
    \/ Gt(r["BMI"], 350)
    \/ Le(r["Functional_Assessment"], 30)

\* The cell with the sum as the additions left it, before round()
ScoreCell_Unrounded(r, noise) == FloatV(calculate_risk_score(r, noise).unrounded)

\* The cell of the Risk_Score column: the score in thousandths
ScoreCell(r, noise) == FloatV(calculate_risk_score(r, noise).value)

\* The derived columns with the scores of the pass before kept: the record
\* at a position the last filtered table had gets the score found there
WithDerived_Reused(fd, noise) ==
    IF "Risk_Score" \in Columns(fd) THEN [raised |-> "none", table |-> fd]
    ELSE LET failed == {i \in 1..Len(fd) : calculate_risk_score(fd[i], noise).raised # "none"}
             first  == CHOOSE i \in failed : \A j \in failed : i <= j
             scored == [i \in 1..Len(fd) |->
                          LET sc == IF i <= Len(filtered_df) /\ "Risk_Score" \in DOMAIN filtered_df[i]
                                    THEN filtered_df[i]["Risk_Score"]
                                    ELSE ScoreCell(fd[i], noise)
                          IN  WithCell(WithCell(fd[i], "Risk_Score", sc),
                                       "Risk_Category", StrV(categorize_risk(sc.n)))]
         IN  IF failed # {}
             THEN [raised |-> calculate_risk_score(fd[first], noise).raised, table |-> fd]
             ELSE IF "Functional_Assessment" \notin Columns(fd)
             THEN [raised |-> "KeyError", table |-> scored]
             ELSE [raised |-> "none",
                   table  |-> [i \in 1..Len(fd) |->
                                 WithCell(scored[i], "Early_Detection_Flag",
                                          BoolV(EarlyDetection(scored[i])))]]

\* The table with the three derived columns, or the exception raised on the
\* way.  Nothing is added when the table already has a Risk_Score column.
WithDerived(fd, noise) ==
    IF "Risk_Score" \in Columns(fd) THEN [raised |-> "none", table |-> fd]
    ELSE LET failed == {i \in 1..Len(fd) : calculate_risk_score(fd[i], noise).raised # "none"}
             first  == CHOOSE i \in failed : \A j \in failed : i <= j
             scored == [i \in 1..Len(fd) |->
                          LET sc == ScoreCell(fd[i], noise)
                          IN  WithCell(WithCell(fd[i], "Risk_Score", sc),
                                       "Risk_Category", StrV(categorize_risk(sc.n)))]
         IN  IF failed # {}
             THEN [raised |-> calculate_risk_score(fd[first], noise).raised, table |-> fd]
             ELSE IF "Functional_Assessment" \notin Columns(fd)
             THEN [raised |-> "KeyError", table |-> scored]
             ELSE [raised |-> "none",
                   table  |-> [i \in 1..Len(fd) |->
                                 WithCell(scored[i], "Early_Detection_Flag",
                                          BoolV(EarlyDetection(scored[i])))]]

Tiers == {"High Risk", "Medium Risk", "Low Risk"}

\* len(fd[fd["Risk_Category"] == cat])
TierCount(fd, cat) ==
    Cardinality({i \in 1..Len(fd) : PyEq(fd[i]["Risk_Category"], StrV(cat))})

\* count / total * 100 as the page shows it, in tenths of a percent, and 0
\* when the total is 0
Percent(count, total) ==
    IF total > 0 THEN (2000 * count + total) \div (2 * total) ELSE 0

\* Filtered_df["Early_Detection_Flag"].sum()
FlagCount(fd) ==
    Cardinality({i \in 1..Len(fd) : fd[i]["Early_Detection_Flag"] = BoolV(TRUE)})

\* (high_risk_patients['Depression'] == 'Yes').sum(), and 0 for a table
\* without the column
DepressionCount(fd) ==
    IF "Depression" \in Columns(fd)
    THEN Cardinality({i \in 1..Len(fd) :
                        /\ PyEq(fd[i]["Risk_Category"], StrV("High Risk"))
                        /\ PyEq(fd[i]["Depression"], StrV("Yes"))})
    ELSE 0

\* The key metrics of the filtered population, the patients per tier and the
\* depressed among the High Risk patients
Summary(fd) ==
    [total_patients        |-> Len(fd),
     high_risk_count       |-> TierCount(fd, "High Risk"),
     high_risk_pct         |-> Percent(TierCount(fd, "High Risk"), Len(fd)),
     early_detection_count |-> FlagCount(fd),
     early_detection_pct   |-> Percent(FlagCount(fd), Len(fd)),
     tiers                 |-> [c \in Tiers |-> TierCount(fd, c)],
     depression_count      |-> DepressionCount(fd)]

\* No metrics were computed
NoSummary ==
    [total_patients |-> 0, high_risk_count |-> 0, high_risk_pct |-> 0,
     early_detection_count |-> 0, early_detection_pct |-> 0,
     tiers |-> [c \in Tiers |-> 0], depression_count |-> 0]

\* The variables of the correlation matrix
risk_variables ==
    {"Patient_Age", "MMSE", "BMI", "Cholesterol_Total", "Functional_Assessment",
     "Physical_Activity", "Alcohol_Consumption", "Diet_Quality",
     "Activities_Of_Daily_Living", "Risk_Score"}

\* The same variables as the list the code writes them in
risk_variables_list ==
    << "Patient_Age", "MMSE", "BMI", "Cholesterol_Total", "Functional_Assessment",
       "Physical_Activity", "Alcohol_Consumption", "Diet_Quality",
       "Activities_Of_Daily_Living", "Risk_Score" >>

\* The whole list, whatever columns the table has
available_vars_AllListed(fd) == risk_variables_list

\* [var for var in risk_variables if var in filtered_df.columns]
available_vars(fd) ==
    SelectSeq(risk_variables_list, LAMBDA var : var \in Columns(fd))

\* The correlation section: whether filtered_df[available_vars].corr() was
\* computed and drawn (matrix), over which variables (vars) and how many
\* records (n), and the text that goes with it
Correlation(fd) ==
    IF Len(available_vars(fd)) >= 3
    THEN [matrix |-> TRUE, vars |-> available_vars(fd), n |-> Len(fd),
          text |-> IF Len(fd) > 10 THEN "insights"
                   ELSE "Not enough data points"]
    ELSE [matrix |-> FALSE, vars |-> available_vars(fd), n |-> Len(fd),
          text |-> "Not enough numerical variables"]

\* The section was not reached
NoCorrelation == [matrix |-> FALSE, vars |-> <<>>, n |-> 0, text |-> "-"]

\* df when the derived columns are assigned to the table df names
SourceAfter_Written(t, derived) == derived

\* df after the derived columns were assigned: they are assigned to
\* filtered_df, a table of its own since df.copy() and the masks that follow
\* it, so df is the table it was
SourceAfter(t, derived) == t

\* The branch with the empty filtered table handed back
NoMatch_ReturnsFiltered(t, fd) ==
    [outcome |-> "empty", filtered_df |-> fd, returned |-> fd,
     summary |-> NoSummary, correlation |-> NoCorrelation, source |-> t]

\* The branch taken when no record is left: an error message and a list of
\* suggestions are shown, and df is returned
NoMatch(t, fd) ==
    [outcome |-> "empty", filtered_df |-> fd, returned |-> t,
     summary |-> NoSummary, correlation |-> NoCorrelation, source |-> t]

\* risk_assessment_dashboard() with the widgets at w: how it ended, the
\* filtered table it worked on, the table it returned, the metrics and the
\* correlation section it showed and df as it left it
risk_assessment_dashboard(t, w, noise) ==
    IF ~(RequiredColumns \subseteq Columns(t))
    THEN [outcome |-> "KeyError", filtered_df |-> <<>>, returned |-> <<>>,
          summary |-> NoSummary, correlation |-> NoCorrelation, source |-> t]
    ELSE CHOOSE run \in
            { IF Len(fd) = 0 THEN NoMatch(t, fd)
              ELSE CHOOSE shown \in
                     { IF dv.raised # "none"
                       THEN [outcome |-> dv.raised, filtered_df |-> dv.table,
                             returned |-> <<>>,
                             summary |-> NoSummary, correlation |-> NoCorrelation,
                             source |-> SourceAfter(t, dv.table)]
                       ELSE [outcome |-> "ok", filtered_df |-> dv.table,
                             returned |-> dv.table,
                             summary |-> Summary(dv.table),
                             correlation |-> Correlation(dv.table),
                             source |-> SourceAfter(t, dv.table)]
                       : dv \in {WithDerived(fd, noise)} } : TRUE
              : fd \in {Rows(t, ApplyFilters(t, w, Len(Filters)), 1)} } : TRUE

\* The headline statistics of dashboard_body, computed on the whole table
Headline(t, noise) ==
    LET high == {i \in 1..Len(t) :
                    categorize_risk(calculate_risk_score(t[i], noise).value) = "High Risk"}
    IN  [high_risk_count |-> Cardinality(high),
         total_patients  |-> Len(t),
         mmse_critical   |-> Cardinality({i \in 1..Len(t) : Lt(t[i]["MMSE"], 180)})]

NoHeadline == [high_risk_count |-> 0, total_patients |-> 0, mmse_critical |-> 0]

\* One run of dashboard_body with the widgets at w
dashboard_body(t, w, noise) ==
    LET failed == {i \in 1..Len(t) : calculate_risk_score(t[i], noise).raised # "none"}
        first  == CHOOSE i \in failed : \A j \in failed : i <= j
    IN  IF failed # {}
        THEN [outcome |-> calculate_risk_score(t[first], noise).raised,
              headline |-> NoHeadline, filtered_df |-> <<>>, returned |-> <<>>,
              summary |-> NoSummary, correlation |-> NoCorrelation, source |-> t]
        ELSE IF Len(t) = 0
        THEN [outcome |-> "ZeroDivisionError",
              headline |-> NoHeadline, filtered_df |-> <<>>, returned |-> <<>>,
              summary |-> NoSummary, correlation |-> NoCorrelation, source |-> t]
        ELSE CHOOSE run \in
                { [outcome |-> page.outcome, headline |-> Headline(t, noise),
                   filtered_df |-> page.filtered_df, returned |-> page.returned,
                   summary |-> page.summary, correlation |-> page.correlation,
                   source |-> page.source]
                  : page \in {risk_assessment_dashboard(t, w, noise)} } : TRUE

-----------------------------------------------------------------------------
(* The tables the page is run on, and the page as a state machine: every   *)
(* change of a widget reruns dashboard_body from the top.                  *)

\* The most widgets away from their default value at one time
MaxActive == 1

FullColumns ==
    {Filters[i].col : i \in FilterIndex} \cup {"Cholesterol_Total"}

\* A record of the full schema.  flag is the cell of the five flag columns
\* other than Depression and Smoking, life the cell of the lifestyle scores.
Patient(gender, age, mmse, bmi, fa, dep, smoke, flag, life) ==
    [c \in FullColumns |->
        CASE c = "Gender"                -> StrV(gender)
          [] c = "Ethnicity"             -> StrV(IF age.n >= 750 THEN "Asian" ELSE "Caucasian")
          [] c = "Patient_Age"           -> age
          [] c = "MMSE"                  -> mmse
          [] c = "BMI"                   -> bmi
          [] c = "Functional_Assessment" -> fa
          [] c = "Depression"            -> dep
          [] c = "Smoking"               -> smoke
          [] c = "Diagnosis"             -> flag
          [] c = "Cholesterol_Total"     -> FloatV(2000)
          [] c \in FlagColumns           -> flag
          [] OTHER                       -> life]

\* Six patients: one well; one with every early-detection attribute exactly
\* on its threshold, who scores exactly 9.0; one beyond each single threshold (MMSE, age and BMI;
\* functional assessment); one severe; one with cells missing
Pool ==
    << Patient("Male",   IntV(650), FloatV(290), FloatV(240), FloatV(80), StrV("No"),  StrV("No"),  StrV("No"),  FloatV(80)),
       Patient("Female", IntV(750), FloatV(180), FloatV(350), FloatV(31), StrV("No"),  StrV("Yes"), StrV("No"),  FloatV(30)),
       Patient("Female", IntV(760), FloatV(179), FloatV(351), FloatV(70), StrV("Yes"), StrV("No"),  StrV("No"),  FloatV(30)),
       Patient("Male",   IntV(700), FloatV(250), FloatV(220), FloatV(30), StrV("No"),  StrV("No"),  StrV("Yes"), FloatV(60)),
       Patient("Male",   IntV(880), FloatV(60),  FloatV(380), FloatV(10), StrV("Yes"), StrV("Yes"), StrV("Yes"), FloatV(10)),
       Patient("Female", IntV(720), NaN,         FloatV(260), NaN,        StrV("No"),  StrV("No"),  StrV("No"),  NaN) >>

RECURSIVE Pick(_, _)
\* The records of Pool at the positions in S, in Pool's order
Pick(S, i) ==
    IF i > Len(Pool) THEN <<>>
    ELSE (IF i \in S THEN <<Pool[i]>> ELSE <<>>) \o Pick(S, i + 1)

Project(t, cols) == [i \in 1..Len(t) |-> [c \in cols |-> t[i][c]]]

\* The tables the page is run on: a file with no records; two of the full
\* schema; one without the functional assessment; one with only the columns
\* the page reads unconditionally and the functional assessment.  Every
\* slider column holds at least one number.
Datasets ==
    { <<>>,
      Project(Pick({1, 2, 3}, 1), FullColumns),
      Project(Pick({4, 5, 6}, 1), FullColumns),
      Project(Pick({1, 3, 5}, 1), FullColumns \ {"Functional_Assessment"}),
      Project(Pick({2, 4, 6}, 1), RequiredColumns \cup {"Functional_Assessment"}) }

-----------------------------------------------------------------------------
(* Page navigation: app.py and MultiPage.  A text of the URL is a sequence *)
(* of characters, so that int() has something to parse.                    *)

Digits == <<"0", "1", "2", "3", "4", "5", "6", "7", "8", "9">>

IsDigit(ch) == \E k \in 1..10 : Digits[k] = ch

DigitValue(ch) == (CHOOSE k \in 1..10 : Digits[k] = ch) - 1

RECURSIVE str(_)
\* str(k) of a non-negative integer
str(k) ==
    IF k < 10 THEN <<Digits[k + 1]>>
    ELSE str(k \div 10) \o <<Digits[(k % 10) + 1]>>

RECURSIVE strip(_)
\* The text without the blanks at its ends, as int() reads it
strip(cs) ==
    IF cs = <<>> THEN cs
    ELSE IF Head(cs) = " " THEN strip(Tail(cs))
    ELSE IF cs[Len(cs)] = " " THEN strip(SubSeq(cs, 1, Len(cs) - 1))
    ELSE cs

RECURSIVE DecimalValue(_)
\* The number a sequence of digits writes
DecimalValue(ds) ==
    IF ds = <<>> THEN 0
    ELSE DecimalValue(SubSeq(ds, 1, Len(ds) - 1)) * 10 + DigitValue(ds[Len(ds)])

\* int(text): blanks around, an optional sign, then digits only; anything
\* else raises ValueError
py_int(cs) ==
    LET s      == strip(cs)
        signed == s # <<>> /\ Head(s) \in {"+", "-"}
        body   == IF signed THEN Tail(s) ELSE s
    IN  IF body = <<>> \/ \E k \in 1..Len(body) : ~IsDigit(body[k])
        THEN [raised |-> "ValueError", value |-> 0]
        ELSE [raised |-> "none",
              value  |-> IF signed /\ Head(s) = "-"
                         THEN 0 - DecimalValue(body)
                         ELSE DecimalValue(body)]

\* The pages in the order app.py adds them
pages ==
    << [title |-> "Home",                          function |-> "home_page"],
       [title |-> "Project Summary",               function |-> "page_summary_body"],
       [title |-> "Alzheimer's Disease Dashboard", function |-> "dashboard_body"],
       [title |-> "Conclusion",                    function |-> "conclusion_page"] >>

\* The positions of the pages, counted from 0 as Python does
PageIndex == 0..(Len(pages) - 1)

\* A session state with no key, and a URL with no parameter
EmptyState == [k \in {} |-> 0]
NoParams   == [k \in {} |-> <<>>]

\* No selectbox drawn yet, and no pass of the script made yet
NoWidget == [index |-> -1, value |-> -1]
NoRun ==
    [first |-> FALSE, consulted |-> FALSE, rewritten |-> FALSE, index |-> -1,
     selected_page |-> -1, function |-> "-", raised |-> "none"]

\* Before a browser opens the application
NoSession ==
    /\ session_state = EmptyState
    /\ query_params = NoParams
    /\ page_selector = NoWidget
    /\ last_run = NoRun

\* The range test with the position after the last page let through
InRange_UpTo4(page_index) == 0 <= page_index /\ page_index <= 4

\* 0 <= page_index < 4
InRange(page_index) == 0 <= page_index /\ page_index < 4

\* The first lines of app.py in a session that has no app_initialized yet:
\* the key is set, and a page parameter that int() reads as 0..3 becomes
\* current_page_index
restore(ss, qp) ==
    LET marked == ss @@ ("app_initialized" :> TRUE)
    IN  IF "page" \notin DOMAIN qp THEN marked
        ELSE LET page_index == py_int(qp["page"])
             IN  IF page_index.raised = "none" /\ InRange(page_index.value)
                 THEN ("current_page_index" :> page_index.value) @@ marked
                 ELSE marked

\* What makes two selectbox calls the same widget: Streamlit releases derive
\* it from the arguments of the call (index among them) or from the key
WidgetIdentity == {"arguments", "key"}

\* st.sidebar.selectbox(..., self.pages, index=index, key='page_selector')
\* when the screen holds the widget w: the position of the option it
\* returns, and the widget drawn.  A call that is the widget of the screen
\* returns the option held there; a new widget returns the option at index.
selectbox(w, index, identity) ==
    IF index \notin PageIndex
    THEN [raised |-> "StreamlitAPIException", value |-> -1, widget |-> NoWidget]
    ELSE IF w = NoWidget \/ (identity = "arguments" /\ w.index # index)
    THEN [raised |-> "none", value |-> index,
          widget |-> [index |-> index, value |-> index]]
    ELSE [raised |-> "none", value |-> w.value,
          widget |-> [index |-> index, value |-> w.value]]

\* The position of the first page with the title of the selected page
position(selected_page) ==
    (CHOOSE i \in 1..Len(pages) :
        /\ pages[i].title = selected_page.title
        /\ \A j \in 1..(i - 1) : pages[j].title # selected_page.title) - 1

\* One pass of app.py: the restore of the first pass, then MultiPage.run
script(ss, qp, w, identity) ==
    LET first  == "app_initialized" \notin DOMAIN ss
        opened == IF first THEN restore(ss, qp) ELSE ss
        state  == IF "current_page_index" \notin DOMAIN opened
                  THEN ("current_page_index" :> 0) @@ opened
                  ELSE opened
        index  == state["current_page_index"]
        drawn  == selectbox(w, index, identity)
    IN  IF drawn.raised # "none"
        THEN [session_state |-> state, query_params |-> qp,
              page_selector |-> drawn.widget,
              last_run |-> [first |-> first, consulted |-> first,
                            rewritten |-> FALSE, index |-> index,
                            selected_page |-> -1, function |-> "-",
                            raised |-> drawn.raised]]
        ELSE LET selected_page == pages[drawn.value + 1]
                 i == position(selected_page)
             IN  [session_state |-> [state EXCEPT !["current_page_index"] = i],
                  query_params  |-> IF index # i THEN ("page" :> str(i)) ELSE qp,
                  page_selector |-> drawn.widget,
                  last_run |-> [first |-> first, consulted |-> first,
                                rewritten |-> index # i, index |-> index,
                                selected_page |-> i,
                                function |-> selected_page.function,
                                raised |-> "none"]]

\* The texts a URL carries as its page parameter
PageTexts ==
    { <<"0">>, <<"1">>, <<"2">>, <<"3">>, <<"4">>, <<"1", "2">>, <<"-", "1">>,
      <<"+", "2">>, <<"0", "3">>, <<" ", "1">>, <<"1", ".", "0">>, <<"a">>,
      <<>> }

\* The query strings a browser opens the application with
URLs == {NoParams} \cup {("page" :> cs) : cs \in PageTexts}

InitPages ==
    /\ NoSession
    /\ df \in Datasets
    /\ widgets = DefaultWidgets(df)
    /\ outcome = "init"
    /\ headline = NoHeadline
    /\ filtered_df = <<>>
    /\ returned = <<>>
    /\ summary = NoSummary
    /\ correlation = NoCorrelation
    /\ row = MinimalRow
    /\ result = NotScored
    /\ tier = "-"
    /\ edits = 0
    /\ prev_row = row
    /\ prev_score = Outcome(NotScored)

\* The script runs from the top in the session ss with the URL qp and the
\* selectbox w on the screen, and the function of the selected page draws
\* the page: dashboard_body draws the dashboard
Pass(ss, qp, w) ==
    /\ \E identity \in WidgetIdentity :
         \E run \in {script(ss, qp, w, identity)} :
            /\ session_state' = run.session_state
            /\ query_params' = run.query_params
            /\ page_selector' = run.page_selector
            /\ last_run' = run.last_run
            /\ IF run.last_run.function = "dashboard_body"
               THEN \E page \in {dashboard_body(df, widgets, 0)} :
                       /\ outcome' = page.outcome
                       /\ headline' = page.headline
                       /\ filtered_df' = page.filtered_df
                       /\ returned' = page.returned
                       /\ summary' = page.summary
                       /\ correlation' = page.correlation
                       /\ df' = page.source
                       /\ widgets' = widgets
               ELSE UNCHANGED page_vars
    /\ UNCHANGED score_vars

\* A browser opens the application at a URL, or reloads the one it shows:
\* a new session, with nothing in its state and nothing on its screen
OpenSession(qp) ==
    Pass(EmptyState, qp, NoWidget)

\* The user picks the page at position i in the selectbox on the screen
SelectPage(i) ==
    /\ page_selector # NoWidget
    /\ i # page_selector.value
    /\ Pass(session_state, query_params, [page_selector EXCEPT !.value = i])

\* The user operates a widget of the page shown, which runs the script again
Interact ==
    /\ page_selector # NoWidget
    /\ Pass(session_state, query_params, page_selector)

NextPages ==
    \/ \E qp \in URLs \cup {query_params} : OpenSession(qp)
    \/ \E i \in PageIndex : SelectPage(i)
    \/ Interact

SpecPages == InitPages /\ [][NextPages]_vars

-----------------------------------------------------------------------------
(* The scorer and the classifier applied to one record.                    *)

InitScore ==
    /\ row \in BaseRows
    /\ result = NotScored
    /\ tier = "-"
    /\ edits = 0
    /\ prev_row = row
    /\ prev_score = Outcome(NotScored)
    /\ df = <<>>
    /\ widgets = DefaultWidgets(df)
    /\ outcome = "init"
    /\ headline = NoHeadline
    /\ filtered_df = <<>>
    /\ returned = <<>>
    /\ summary = NoSummary
    /\ correlation = NoCorrelation
    /\ NoSession

\* categorize_risk(calculate_risk_score(r)) for the record r, which replaces
\* the record scored before
Apply(r) ==
    /\ row' = r
    /\ \E noise \in FloatNoise :
         /\ result' = calculate_risk_score(r, noise)
         /\ tier' = IF result'.raised = "none"
                    THEN categorize_risk(result'.value)
                    ELSE "-"
    /\ prev_row' = row
    /\ prev_score' = Outcome(result)
    /\ UNCHANGED page_vars
    /\ UNCHANGED nav_vars

\* The starting record is scored
ScoreRow ==
    /\ result = NotScored
    /\ Apply(row)
    /\ UNCHANGED edits

\* A record that differs from the last one in attribute c is scored
ScoreWith(c, v) ==
    /\ result # NotScored
    /\ edits < MaxEdits
    /\ edits' = edits + 1
    /\ Apply(WithCell(row, c, v))

\* A record like the last one, from a table without column c, is scored
ScoreWithout(c) ==
    /\ result # NotScored
    /\ edits < MaxEdits
    /\ Has(row, c)
    /\ edits' = edits + 1
    /\ Apply(WithoutColumn(row, c))

NextScore ==
    \/ ScoreRow
    \/ \E c \in ScoredColumns : \E v \in CellValues(c) : ScoreWith(c, v)
    \/ \E c \in ScoredColumns : ScoreWithout(c)

SpecScore == InitScore /\ [][NextScore]_vars

-----------------------------------------------------------------------------
(* The page.                                                               *)

Init ==
    /\ df \in Datasets
    /\ widgets = DefaultWidgets(df)
    /\ outcome = "init"
    /\ headline = NoHeadline
    /\ filtered_df = <<>>
    /\ returned = <<>>
    /\ summary = NoSummary
    /\ correlation = NoCorrelation
    /\ NoSession
    /\ row = MinimalRow
    /\ result = NotScored
    /\ tier = "-"
    /\ edits = 0
    /\ prev_row = row
    /\ prev_score = Outcome(NotScored)

\* The script runs from the top with the widgets at w.  The sums are taken
\* as exact here: round2 removes what floating point adds to them.
Rerun(w) ==
    /\ widgets' = w
    /\ \E run \in {dashboard_body(df, w, 0)} :
         /\ outcome' = run.outcome
         /\ headline' = run.headline
         /\ filtered_df' = run.filtered_df
         /\ returned' = run.returned
         /\ summary' = run.summary
         /\ correlation' = run.correlation
         /\ df' = run.source
    /\ UNCHANGED score_vars
    /\ UNCHANGED nav_vars

\* Whether the last run got as far as drawing the filter widgets
WidgetsDrawn ==
    /\ outcome \in {"ok", "empty", "KeyError"}
    /\ RequiredColumns \subseteq Columns(df)

\* The widgets of w that are not at their default value
Active(w) ==
    LET default == DefaultWidgets(df)
    IN  {i \in FilterIndex : w[i] # default[i]}

\* The page is opened
OpenDashboard ==
    /\ outcome = "init"
    /\ Rerun(widgets)

\* The user presses "Reset All Filters": st.experimental_rerun() runs the
\* script again, and every widget keeps its value
ResetAllFilters ==
    /\ WidgetsDrawn
    /\ Rerun(widgets)

\* The user picks option v in the selectbox of filter i
Select(i, v) ==
    /\ WidgetsDrawn
    /\ Filters[i].kind = "selectbox"
    /\ v \in Options(df, Filters[i])
    /\ v # widgets[i].sel
    /\ Cardinality(Active([widgets EXCEPT ![i] = Selected(v)])) <= MaxActive
    /\ Rerun([widgets EXCEPT ![i] = Selected(v)])

\* The values the handles of the slider of filter i are put at
SliderStops(i) ==
    IF Filters[i].kind # "slider" \/ Filters[i].col \notin Columns(df) THEN {}
    ELSE IF Filters[i].col = "Patient_Age"
    THEN {int(x) : x \in Numbers(df, Filters[i].col)}
    ELSE Numbers(df, Filters[i].col)

\* The user moves the handles of the slider of filter i to (lo, hi)
Slide(i, lo, hi) ==
    /\ WidgetsDrawn
    /\ Filters[i].kind = "slider"
    /\ widgets[i].on
    /\ lo <= hi
    /\ Range(lo, hi) # widgets[i]
    /\ Cardinality(Active([widgets EXCEPT ![i] = Range(lo, hi)])) <= MaxActive
    /\ Rerun([widgets EXCEPT ![i] = Range(lo, hi)])

Next ==
    \/ OpenDashboard
    \/ ResetAllFilters
    \/ \E i \in FilterIndex : \E v \in Options(df, Filters[i]) : Select(i, v)
    \/ \E i \in FilterIndex : \E lo, hi \in SliderStops(i) : Slide(i, lo, hi)

Spec == Init /\ [][Next]_vars

-----------------------------------------------------------------------------
(* Properties of calculate_risk_score, checked under SpecScore.            *)

FactorIndex(c) == CHOOSE i \in 1..Len(Factors) : Factors[i] = c

Scored == result.raised = "none"

\* C2: for every record the function scores, the age block adds exactly the
\* entry of the ordered table: age >= 85 -> 3.5, else >= 80 -> 3.0, else
\* >= 75 -> 2.5, else >= 70 -> 2.0, else 1.0.
C2_AgeTable ==
    Scored =>
        LET a   == row["Patient_Age"]
            num == a.t # "nan"
        IN  result.added[FactorIndex("Patient_Age")] =
                IF num /\ a.n >= 850 THEN 3500
                ELSE IF num /\ a.n >= 800 THEN 3000
                ELSE IF num /\ a.n >= 750 THEN 2500
                ELSE IF num /\ a.n >= 700 THEN 2000
                ELSE 1000

\* A record aged exactly 85 was scored and its age block added 3.5
C2_Witness ==
    /\ Scored
    /\ row["Patient_Age"] = IntV(850)
    /\ result.added[FactorIndex("Patient_Age")] = 3500

\* C3: for every record the function scores, the MMSE block adds exactly the
\* entry of the ordered table: MMSE < 10 -> 3.5, else < 18 -> 3.0, else
\* < 24 -> 2.0, else < 27 -> 1.0, else 0.5.
C3_MMSETable ==
    Scored =>
        LET m   == row["MMSE"]
            num == m.t # "nan"
        IN  result.added[FactorIndex("MMSE")] =
                IF num /\ m.n < 100 THEN 3500
                ELSE IF num /\ m.n < 180 THEN 3000
                ELSE IF num /\ m.n < 240 THEN 2000
                ELSE IF num /\ m.n < 270 THEN 1000
                ELSE 500

\* A record with MMSE exactly 27 was scored and its MMSE block added 0.5
C3_Witness ==
    /\ Scored
    /\ row["MMSE"] = FloatV(270)
    /\ result.added[FactorIndex("MMSE")] = 500

\* C4: whatever optional attributes the record has, a returned score is
\* non-negative and an exact multiple of 0.01 (10 thousandths).
C4_NonNegativeHundredths ==
    Scored => (result.value >= 0 /\ result.value % 10 = 0)

\* A record with some optional attributes and without others was scored, and
\* the sum was not a multiple of 0.01 before it was rounded
C4_Witness ==
    /\ Scored
    /\ Has(row, "Functional_Assessment")
    /\ ~Has(row, "Diet_Quality")
    /\ result.unrounded % 10 # 0
    /\ result.value > 0

\* The attributes in which two records differ
Differing(r1, r2) ==
    {c \in DOMAIN r1 \cup DOMAIN r2 :
        ~(Has(r1, c) /\ Has(r2, c) /\ r1[c] = r2[c])}

\* The BMI buckets by extremity: > 35 or < 18.5, > 30 or < 20, the rest
BMISeverity(x) ==
    IF x > 350 \/ x < 185 THEN 2 ELSE IF x > 300 \/ x < 200 THEN 1 ELSE 0

ReadsYes(v) == v \in {StrV("Yes"), IntV(10)}
ReadsNo(v)  == v \in {StrV("No"), IntV(0)}

\* Cell a of factor c is at least as severe as cell b
AtLeastAsSevere(c, a, b) ==
    CASE c = "Patient_Age" -> IsNumber(a) /\ IsNumber(b) /\ a.n >= b.n
      [] c \in {"MMSE"} \cup OptionalNumeric ->
            IsNumber(a) /\ IsNumber(b) /\ a.n <= b.n
      [] c = "BMI" ->
            IsNumber(a) /\ IsNumber(b) /\ BMISeverity(a.n) >= BMISeverity(b.n)
      [] c \in FlagColumns ->
            (ReadsYes(a) /\ (ReadsYes(b) \/ ReadsNo(b))) \/ (ReadsNo(a) /\ ReadsNo(b))
      [] OTHER -> FALSE

\* The record scored last differs from the one before in one factor only,
\* which is at least as severe in it
OneFactorWorse ==
    /\ Scored
    /\ prev_score.raised = "none"
    /\ \E c \in ScoredColumns :
         /\ Differing(row, prev_row) = {c}
         /\ Has(row, c) /\ Has(prev_row, c)
         /\ AtLeastAsSevere(c, row[c], prev_row[c])

\* C5: monotonicity: when two records differ in exactly one risk factor and
\* that factor is in an equal or more severe bucket in A than in B, then
\* score(A) >= score(B).
C5_Monotone == OneFactorWorse => result.value >= prev_score.value

\* Two such records were scored one after the other, and the score rose
C5_Witness == OneFactorWorse /\ result.value > prev_score.value

\* A cell no number can be read from
NotANumber(r, c) == ~Has(r, c) \/ ~IsNumber(r[c])

\* C6: when a mandatory attribute (age, cognitive score, BMI) is absent, NaN
\* or non-numeric, the function fails (ValidationError, or the exception that
\* stands for it) and returns no score.
C6_InvalidMandatoryFails ==
    (result # NotScored /\ \E c \in {"Patient_Age", "MMSE", "BMI"} : NotANumber(row, c))
        => result.raised # "none"

\* C7: an optional factor whose attribute is absent or NaN adds exactly 0 to
\* the score, and no error is raised: a record whose other cells are all
\* valid is scored.
C7_MissingOptionalAddsZero ==
    (/\ result # NotScored
     /\ \A c \in {"Patient_Age", "MMSE", "BMI"} : ~NotANumber(row, c)
     /\ \A c \in OptionalNumeric : Has(row, c) => (IsNumber(row[c]) \/ row[c] = NaN))
        => /\ Scored
           /\ \A c \in OptionalNumeric \cup FlagColumns :
                (~Has(row, c) \/ row[c] = NaN) => result.added[FactorIndex(c)] = 0

-----------------------------------------------------------------------------
(* The classifier, the flag and the filter on the page (Spec).             *)

\* The tier the thresholds 9 and 6 give a score
Tier(s) ==
    IF s >= 9000 THEN "High Risk"
    ELSE IF s < 6000 THEN "Low Risk"
    ELSE "Medium Risk"

\* Scores from 0 to 20 in steps of 0.05, and every hundredth from 5.8 to 9.2
SampleScores == {50 * k : k \in 0..400} \cup {5800 + 10 * k : k \in 0..340}

\* The last run got as far as the derived columns and added all three
Viewed == WidgetsDrawn /\ outcome = "ok"

\* Record i of the filtered table as it was read from the file
Original(i) == [c \in Columns(df) |-> filtered_df[i][c]]

\* C1: for every score s, categorize_risk(s) is exactly one of the three
\* tiers: High Risk iff s >= 9, Medium Risk iff 6 <= s < 9, Low Risk iff
\* s < 6; and both call sites pair these thresholds with the same scorer: the
\* Risk_Category of every record of the filtered table is the tier of its
\* calculate_risk_score, and the headline counts the records of the whole
\* table whose calculate_risk_score is at least 9.
C1_TiersAtEveryCallSite ==
    /\ \A s \in SampleScores :
         /\ categorize_risk(s) \in {"High Risk", "Medium Risk", "Low Risk"}
         /\ categorize_risk(s) = "High Risk" <=> s >= 9000
         /\ categorize_risk(s) = "Medium Risk" <=> (6000 <= s /\ s < 9000)
         /\ categorize_risk(s) = "Low Risk" <=> s < 6000
    /\ Viewed =>
         \A i \in 1..Len(filtered_df) :
            /\ filtered_df[i]["Risk_Score"].n = calculate_risk_score(Original(i), 0).value
            /\ filtered_df[i]["Risk_Category"].s = Tier(filtered_df[i]["Risk_Score"].n)
    /\ (WidgetsDrawn /\ outcome # "init") =>
         headline.high_risk_count =
            Cardinality({i \in 1..Len(df) : calculate_risk_score(df[i], 0).value >= 9000})

\* A filtered table with a record that scores exactly 9.0 and is High Risk,
\* under a headline that counts it
C1_Witness ==
    /\ Viewed
    /\ headline.high_risk_count >= 1
    /\ headline.high_risk_count < headline.total_patients
    /\ \E i \in 1..Len(filtered_df) :
         /\ filtered_df[i]["Risk_Score"].n = 9000
         /\ filtered_df[i]["Risk_Category"].s = "High Risk"

\* A cell that holds a number below / above / at most k
Below(v, k)  == IsNumber(v) /\ v.n < k
Above(v, k)  == IsNumber(v) /\ v.n > k
AtMost(v, k) == IsNumber(v) /\ v.n <= k

\* At least one of the four early-detection conditions holds of record r
Triggered(r) ==
    \/ Below(r["MMSE"], 180)
    \/ Above(r["Patient_Age"], 750)
    \/ Above(r["BMI"], 350)
    \/ AtMost(r["Functional_Assessment"], 30)

CellOrMissing(r, c) == IF c \in DOMAIN r THEN r[c] ELSE NaN

\* The flag of record r with every missing attribute's condition false
TriggeredOnPresent(r) ==
    \/ Below(CellOrMissing(r, "MMSE"), 180)
    \/ Above(CellOrMissing(r, "Patient_Age"), 750)
    \/ Above(CellOrMissing(r, "BMI"), 350)
    \/ AtMost(CellOrMissing(r, "Functional_Assessment"), 30)

\* C9: computing the flag never fails on missing data: when an attribute of
\* the rule is NaN or its column is not in the dataset, that condition is
\* false and the flag is computed from the others, so a run that reaches the
\* derived columns with records to show ends with every record flagged.
C9_FlagNeverFails ==
    (WidgetsDrawn /\ Len(filtered_df) > 0) =>
        /\ outcome = "ok"
        /\ \A i \in 1..Len(filtered_df) :
              /\ "Early_Detection_Flag" \in DOMAIN filtered_df[i]
              /\ filtered_df[i]["Early_Detection_Flag"]
                    = BoolV(TriggeredOnPresent(filtered_df[i]))

\* Whether record r satisfies every active constraint of the widgets: each
\* selection other than "All", and each range the page built a slider for
Satisfies(r) ==
    /\ \A i \in FilterIndex :
         (Filters[i].kind = "selectbox" /\ widgets[i].sel # All)
            => r[Filters[i].col] = widgets[i].sel
    /\ \A i \in FilterIndex :
         (Filters[i].kind = "slider" /\ widgets[i].on)
            => /\ IsNumber(r[Filters[i].col])
               /\ widgets[i].lo <= r[Filters[i].col].n
               /\ r[Filters[i].col].n <= widgets[i].hi

\* The records of the filtered table as they were read from the file
FilteredOriginals == [i \in 1..Len(filtered_df) |-> Original(i)]

\* C10: the population filter returns exactly the records of the full
\* dataset that satisfy the conjunction of all active constraints: a record
\* is in the filtered set iff it matches every selection that is not "All"
\* and lies within [min, max], ends included, of every range filter; the
\* result is a subset of the full dataset.
C10_FilterIsConjunction ==
    (WidgetsDrawn /\ outcome # "init") =>
        /\ FilteredOriginals = SelectSeq(df, LAMBDA r : Satisfies(r))
        /\ \A i \in 1..Len(filtered_df) : \E j \in 1..Len(df) : Original(i) = df[j]

\* A selection other than "All" with records left: one record is out for the
\* selection alone and another for a range alone
C10_Witness ==
    /\ Viewed
    /\ \E i \in FilterIndex : Filters[i].kind = "selectbox" /\ widgets[i].sel # All
    /\ Len(filtered_df) >= 1
    /\ \E j \in 1..Len(df) : \E i \in FilterIndex :
         /\ Filters[i].kind = "selectbox" /\ widgets[i].sel # All
         /\ df[j][Filters[i].col] # widgets[i].sel
         /\ \A k \in FilterIndex :
              (Filters[k].kind = "slider" /\ widgets[k].on)
                 => /\ IsNumber(df[j][Filters[k].col])
                    /\ widgets[k].lo <= df[j][Filters[k].col].n
                    /\ df[j][Filters[k].col].n <= widgets[k].hi
    /\ \E j \in 1..Len(df) :
         /\ \A i \in FilterIndex :
              (Filters[i].kind = "selectbox" /\ widgets[i].sel # All)
                 => df[j][Filters[i].col] = widgets[i].sel
         /\ ~Satisfies(df[j])

-----------------------------------------------------------------------------
(* The filter as a relation on tables (Spec).                              *)

\* C11: the default filter configuration is a no-op: with every categorical
\* filter at "All" and every range filter at the bounds the page computes
\* from the column, the filtered set equals the full dataset; no record is
\* dropped, a record with a missing value in a range-filtered column
\* included.
C11_DefaultIsNoOp ==
    (WidgetsDrawn /\ outcome # "init" /\ widgets = DefaultWidgets(df))
        => FilteredOriginals = df

\* The positions of df that filter n keeps when it is applied alone
KeptBy(n) == {j \in 1..Len(df) : Keeps(df, Filters[n], widgets[n], df[j])}

\* The positions left when filter a is applied and then filter b
Then(a, b) == {j \in KeptBy(a) : Keeps(df, Filters[b], widgets[b], df[j])}

\* C12: the population filter is order-independent: for any two filter
\* constraints A and B, A then B leaves the same records as B then A, and
\* the fixed order of the code leaves the intersection of what the
\* constraints keep one by one.
C12_OrderIndependent ==
    (WidgetsDrawn /\ outcome # "init") =>
        /\ \A a, b \in FilterIndex : Then(a, b) = Then(b, a)
        /\ ApplyFilters(df, widgets, Len(Filters))
              = {j \in 1..Len(df) : \A n \in FilterIndex : j \in KeptBy(n)}
        /\ Len(filtered_df)
              = Cardinality({j \in 1..Len(df) : \A n \in FilterIndex : j \in KeptBy(n)})

\* Two constraints that each drop a record the other keeps, with a record
\* left that both keep
C12_Witness ==
    /\ WidgetsDrawn /\ outcome = "ok"
    /\ \E a, b \in FilterIndex :
         /\ a < b
         /\ KeptBy(a) \ KeptBy(b) # {}
         /\ KeptBy(b) \ KeptBy(a) # {}
         /\ Then(a, b) # {}
         /\ Len(filtered_df) = Cardinality(Then(a, b))

\* The filtered table of the last pass, filtered again with the same widgets
FilteredAgain ==
    Rows(FilteredOriginals,
         ApplyFilters(FilteredOriginals, widgets, Len(Filters)), 1)

\* C13: the population filter is idempotent: applying the same configuration
\* to the already-filtered set returns the identical set.
C13_Idempotent ==
    (WidgetsDrawn /\ outcome # "init") => FilteredAgain = FilteredOriginals

\* A configuration away from the default that dropped some records and kept
\* others, and keeps all of those when it is applied to them
C13_Witness ==
    /\ WidgetsDrawn /\ outcome = "ok"
    /\ widgets # DefaultWidgets(df)
    /\ Len(filtered_df) >= 1
    /\ Len(filtered_df) < Len(df)
    /\ Len(FilteredAgain) = Len(filtered_df)

-----------------------------------------------------------------------------
(* The end of a pass and what it shows (Spec).                             *)

\* The derived columns
DerivedColumns == {"Risk_Score", "Risk_Category", "Early_Detection_Flag"}

\* C14: when the conjunction of filters matches zero records, the pass ends
\* in a distinct, non-fatal empty-result state: no exception is raised, the
\* 'no matching patients' state is presented, and what the filter hands
\* back can be told both from an empty table and from a normally computed
\* filtered result, which is never empty and has the derived columns.
C14_EmptyResultState ==
    (WidgetsDrawn /\ outcome # "init") =>
        /\ (\A j \in 1..Len(df) : ~Satisfies(df[j])) =>
              /\ outcome = "empty"
              /\ Len(returned) > 0
              /\ Columns(returned) \cap DerivedColumns = {}
        /\ outcome = "ok" =>
              /\ Len(returned) > 0
              /\ DerivedColumns \subseteq Columns(returned)
        /\ outcome = "empty" => \A j \in 1..Len(df) : ~Satisfies(df[j])

\* A selection that matches no record of a table that has records
C14_Witness ==
    /\ WidgetsDrawn /\ outcome = "empty"
    /\ Len(df) > 0
    /\ \E i \in FilterIndex : widgets[i].sel # All
    /\ filtered_df = <<>>
    /\ returned = df

\* C15: every percentage the page computes is guarded against a zero
\* denominator: when the population it is computed over has total 0 (empty
\* filtered set or empty dataset), total 0 and 0% are reported and no
\* division error is raised, for the percentages of the filtered view and
\* for the headline high-risk percentage of dashboard_body.
C15_ZeroDenominatorGuarded ==
    (outcome # "init" /\ (Len(df) = 0 \/ Len(filtered_df) = 0)) =>
        /\ outcome # "ZeroDivisionError"
        /\ summary.total_patients = 0
        /\ summary.high_risk_pct = 0
        /\ summary.early_detection_pct = 0

\* C16: for every filtered population, the patient counts of the tiers High
\* Risk, Medium Risk and Low Risk sum exactly to the size of the filtered
\* population: every record in the view carries exactly one of the three
\* tier labels.
C16_TierCountsSumToTotal ==
    Viewed =>
        /\ summary.total_patients = Len(filtered_df)
        /\ summary.tiers["High Risk"] + summary.tiers["Medium Risk"]
              + summary.tiers["Low Risk"] = summary.total_patients
        /\ summary.high_risk_count = summary.tiers["High Risk"]
        /\ \A i \in 1..Len(filtered_df) :
              /\ filtered_df[i]["Risk_Category"].t = "str"
              /\ filtered_df[i]["Risk_Category"].s \in Tiers

\* A view of three patients, some of them High Risk and some not
C16_Witness ==
    /\ Viewed
    /\ summary.total_patients = 3
    /\ summary.tiers["High Risk"] >= 1
    /\ summary.tiers["High Risk"] < summary.total_patients

\* C17: when the filtered population is below the minimum size (exactly 2
\* records, or fewer), the correlation step reports insufficient data and no
\* correlation matrix is computed or displayed; a matrix is produced only
\* for a larger sample with at least 3 usable variables.
C17_SmallSampleHasNoMatrix ==
    Viewed =>
        /\ Len(filtered_df) <= 2 =>
              /\ ~correlation.matrix
              /\ correlation.text \in {"Not enough data points",
                                       "Not enough numerical variables"}
        /\ correlation.matrix =>
              /\ correlation.n > 2
              /\ Cardinality(risk_variables \cap Columns(filtered_df)) >= 3

-----------------------------------------------------------------------------
(* Passes one after the other (Spec).                                      *)

\* C18: after any sequence of filter changes, the derived fields shown for
\* each record of the current view are fresh and consistent with that
\* record: Risk_Score = calculate_risk_score(record), Risk_Category =
\* categorize_risk(Risk_Score) and Early_Detection_Flag = the threshold rule
\* on the record; no score of an earlier pass is reused, and the guard
\* "Risk_Score" not in filtered_df.columns never skips the computation.
C18_DerivedFieldsFresh ==
    /\ "Risk_Score" \notin Columns(df)
    /\ Viewed =>
         \A i \in 1..Len(filtered_df) :
            /\ DerivedColumns \subseteq DOMAIN filtered_df[i]
            /\ filtered_df[i]["Risk_Score"] = ScoreCell(Original(i), 0)
            /\ filtered_df[i]["Risk_Category"]
                  = StrV(categorize_risk(calculate_risk_score(Original(i), 0).value))
            /\ filtered_df[i]["Early_Detection_Flag"] = BoolV(EarlyDetection(Original(i)))

\* A view after a filter change whose first record is not the first record
\* of the view before it, and has another score
C18_Witness ==
    /\ Viewed
    /\ widgets # DefaultWidgets(df)
    /\ Len(filtered_df) >= 1
    /\ Original(1) # df[1]
    /\ ScoreCell(Original(1), 0) # ScoreCell(df[1], 0)

\* C19: the shared source table is never mutated: after any sequence of
\* passes with any filter configurations, the passes that end in the
\* empty-result branch included, the module-level dataset has the rows,
\* columns and values it was loaded with; the derived columns exist only on
\* the copy of the pass.
C19_SourceNeverMutated ==
    [][df' = df /\ Columns(df') \cap DerivedColumns = {}]_vars

\* A pass after a filter change that left fewer records than df has and
\* gave them the derived columns, which df does not have
C19_Witness ==
    /\ Viewed
    /\ widgets # DefaultWidgets(df)
    /\ Len(filtered_df) < Len(df)
    /\ DerivedColumns \subseteq Columns(filtered_df)
    /\ Columns(df) \cap DerivedColumns = {}
    /\ df \in Datasets

\* What the last pass left, as one record
LastRun ==
    [outcome |-> outcome, headline |-> headline, filtered_df |-> filtered_df,
     returned |-> returned, summary |-> summary, correlation |-> correlation,
     source |-> df]

-----------------------------------------------------------------------------
(* The flag and the tier of one record (Spec).                             *)

\* The records of the tables that hold a number for every attribute of the
\* flag's rule
CompleteRecords ==
    {r \in UNION {{t[i] : i \in 1..Len(t)} : t \in Datasets} :
        \A c \in {"MMSE", "Patient_Age", "BMI", "Functional_Assessment"} :
            Has(r, c) /\ IsNumber(r[c])}

\* The tier the page gives record r
TierOf(r) == categorize_risk(calculate_risk_score(r, 0).value)

\* C21: the Early-Detection flag is independent of the risk tier: there is
\* a valid patient record whose tier is Low Risk and whose flag is true, and
\* there is one whose tier is High Risk and whose flag is false; neither
\* the flag nor the tier follows from the other.
C21_FlagIndependentOfTier ==
    /\ \E r \in CompleteRecords : TierOf(r) = "Low Risk" /\ EarlyDetection(r)
    /\ \E r \in CompleteRecords : TierOf(r) = "High Risk" /\ ~EarlyDetection(r)
    /\ Viewed =>
         \A i \in 1..Len(filtered_df) :
            filtered_df[i]["Early_Detection_Flag"] = BoolV(EarlyDetection(Original(i)))

\* A view that shows a Low Risk patient who is flagged
C21_Witness ==
    /\ Viewed
    /\ \E i \in 1..Len(filtered_df) :
         /\ filtered_df[i]["Risk_Category"] = StrV("Low Risk")
         /\ filtered_df[i]["Early_Detection_Flag"] = BoolV(TRUE)

-----------------------------------------------------------------------------
(* The variables of the correlation matrix (Spec).                         *)

\* The position of each variable in the fixed list: age, cognitive score,
\* BMI, cholesterol, functional assessment, physical activity, alcohol
\* consumption, diet quality, ADL, risk score
ListPosition ==
    [v \in risk_variables |->
        CASE v = "Patient_Age"                -> 1
          [] v = "MMSE"                       -> 2
          [] v = "BMI"                        -> 3
          [] v = "Cholesterol_Total"          -> 4
          [] v = "Functional_Assessment"      -> 5
          [] v = "Physical_Activity"          -> 6
          [] v = "Alcohol_Consumption"        -> 7
          [] v = "Diet_Quality"               -> 8
          [] v = "Activities_Of_Daily_Living" -> 9
          [] v = "Risk_Score"                 -> 10]

\* Whether vs lists exactly the variables that are columns of table fd, each
\* once, in the order of the fixed list
ListsAvailable(vs, fd) ==
    /\ {vs[k] : k \in 1..Len(vs)} = {v \in risk_variables : v \in Columns(fd)}
    /\ \A a, b \in 1..Len(vs) : a < b => ListPosition[vs[a]] < ListPosition[vs[b]]

\* Tables of one patient with some of four columns
NarrowTables ==
    {Project(<<Pool[1]>>, cols) : cols \in SUBSET {"Patient_Age", "MMSE", "BMI", "Gender"}}

\* C22: the correlation matrix is computed over exactly those variables of
\* the fixed ordered list that are columns of the filtered table, in that
\* order; a variable absent from the schema is omitted, never zero-filled;
\* with fewer than 3 variables available no matrix is produced and the 'not
\* enough variables' notice is shown instead.
C22_MatrixOverAvailableVariables ==
    /\ Viewed =>
         /\ ListsAvailable(correlation.vars, filtered_df)
         /\ correlation.matrix <=> Len(correlation.vars) >= 3
    /\ \A fd \in NarrowTables :
         /\ ListsAvailable(Correlation(fd).vars, fd)
         /\ Correlation(fd).matrix <=> Len(Correlation(fd).vars) >= 3
         /\ ~Correlation(fd).matrix
               <=> Correlation(fd).text = "Not enough numerical variables"

\* A view of a table that has only some of the listed variables: age, MMSE,
\* BMI and functional assessment, and the score added to them
C22_Witness ==
    /\ Viewed
    /\ correlation.matrix
    /\ correlation.vars = <<"Patient_Age", "MMSE", "BMI", "Functional_Assessment",
                            "Risk_Score">>
    /\ "Cholesterol_Total" \notin Columns(filtered_df)

-----------------------------------------------------------------------------
(* The two scored scenarios (SpecScore).                                   *)

\* C23: a record with age 85, cognitive score 8, BMI 22, functional
\* assessment 5 and cholesterol 200, and no other fields, receives the total
\* risk score 8.2 and is classified "High Risk".
C23_ScenarioIsHighRisk ==
    (Scored /\ row = ScenarioRow) =>
        /\ result.value = 8200
        /\ tier = "High Risk"

\* The record of the first scenario with the cognitive score 26
ScenarioRow26 == WithCell(ScenarioRow, "MMSE", FloatV(260))

\* C24: a record with age 85, cognitive score 26, BMI 22, functional
\* assessment 5 and cholesterol 200, and no other fields, has the cognitive
\* contribution 0.5 and the total risk score 5.2, and is classified
\* "Medium Risk".
C24_Scenario26IsMediumRisk ==
    (Scored /\ row = ScenarioRow26) =>
        /\ result.added[FactorIndex("MMSE")] = 500
        /\ result.value = 5200
        /\ tier = "Medium Risk"

-----------------------------------------------------------------------------
(* The comorbidity and behavioural flags (SpecScore).                      *)

\* A flag value that means yes: yes in any casing, or 1 as text, integer or
\* float
MeansYes(v) ==
    \/ v.t = "str" /\ v.s \in {"Yes", "YES", "yes", "1"}
    \/ v.t \in {"int", "float"} /\ v.n = 10

\* A flag value that means no: no in any casing, or 0 as text, integer or
\* float
MeansNo(v) ==
    \/ v.t = "str" /\ v.s \in {"No", "NO", "no", "0"}
    \/ v.t \in {"int", "float"} /\ v.n = 0

\* What each flag adds to the score when it is positive and when it is
\* negative
FlagPoints ==
    [c \in FlagColumns |->
        CASE c = "Depression"             -> [yes |-> 1200, no |-> 200]
          [] c = "Memory_Complaints"      -> [yes |-> 1200, no |-> 100]
          [] c = "Cardiovascular_Disease" -> [yes |-> 600,  no |-> 0]
          [] c = "Smoking"                -> [yes |-> 400,  no |-> 0]
          [] OTHER                        -> [yes |-> 800,  no |-> 0]]

\* The scored record as the only High Risk patient of a table
AsHighRisk == <<WithCell(row, "Risk_Category", StrV("High Risk"))>>

\* C25: the flags are normalised to one boolean meaning wherever they are
\* used: for every flag value given as yes/no or 0/1, in any casing and
\* whether 0/1 arrives as text, integer or float, yes and 1 count as positive
\* and no and 0 as negative in calculate_risk_score, and the high-risk
\* 'Depression Rate' counts exactly the patients the scorer treats as
\* depressed.
C25_FlagsNormalised ==
    Scored =>
        /\ \A c \in FlagColumns :
              Has(row, c) =>
                 /\ MeansYes(row[c]) => result.added[FactorIndex(c)] = FlagPoints[c].yes
                 /\ MeansNo(row[c]) => result.added[FactorIndex(c)] = FlagPoints[c].no
        /\ Has(row, "Depression") =>
              (DepressionCount(AsHighRisk) = 1
                  <=> result.added[FactorIndex("Depression")] = FlagPoints["Depression"].yes)

-----------------------------------------------------------------------------
(* The documented tier ranges (SpecScore).                                 *)

\* C26: the ranges the page documents for the tiers (Low 0-5.9, Medium
\* 6-8.9, High 9+) agree with categorize_risk on every score the scorer can
\* produce: no produced score falls between two documented ranges, and the
\* tier of each is the one whose range holds it.
C26_DocumentedRangesAgree ==
    Scored => tier = DocumentedTier(result.value)

\* A record was scored 5.9, the last score of the documented Low Risk range,
\* from a sum that floating point had left beside 5.9
C26_Witness ==
    /\ Scored
    /\ result.value = 5900
    /\ result.unrounded # 5900
    /\ tier = "Low Risk"

-----------------------------------------------------------------------------
(* The documented clinical decision thresholds (Spec).                     *)

\* C27: the thresholds the guide documents (MMSE < 18, age > 75, BMI > 35,
\* functional assessment <= 2) are the ones the Early-Detection flag
\* applies: every record of the view is flagged exactly when a documented
\* threshold is met, and a record that meets none of the other three is
\* flagged exactly when its functional assessment is <= 2.
C27_DocumentedThresholdsApplied ==
    Viewed =>
        \A i \in 1..Len(filtered_df) :
            LET r == filtered_df[i]
                others == \/ Below(r["MMSE"], 180)
                          \/ Above(r["Patient_Age"], 750)
                          \/ Above(r["BMI"], 350)
            IN  /\ r["Early_Detection_Flag"] = BoolV(DocumentedThresholds(Original(i)))
                /\ ~others => (r["Early_Detection_Flag"] = BoolV(TRUE)
                                  <=> AtMost(r["Functional_Assessment"], 20))

-----------------------------------------------------------------------------
(* The "Reset All Filters" button (Spec).                                  *)

\* The pass after this step runs with every categorical filter at "All" and
\* every range at the full observed range of its column, and its filtered
\* table has every patient of the dataset
DefaultsFollow ==
    /\ widgets' = DefaultWidgets(df')
    /\ outcome' = "ok" => Len(filtered_df') = Len(df')

\* C28: pressing "Reset All Filters" resets the filter configuration: in
\* the pass that follows the press every categorical filter is "All" and
\* every range filter is at the full observed range of its column, so the
\* filtered population of that pass is the full population.
C28_ResetRestoresDefaults ==
    ~ENABLED (ResetAllFilters /\ ~DefaultsFollow)

-----------------------------------------------------------------------------
(* Page navigation (SpecPages).                                            *)

\* A session is open and its last pass drew the navigation
Navigated == last_run # NoRun

\* After this step the session is on page i: the index is i, the URL says
\* page=i and the function of page i ran
OnPage(i) ==
    /\ session_state'["current_page_index"] = i
    /\ last_run'.function = pages[i + 1].function

\* C29: the page selection is preserved across reloads: whenever the user
\* selects page i, current_page_index becomes i and the URL query parameter
\* page is set to i; and a new session opened with page=i, 0 <= i < 4,
\* starts on page i and runs the function of that page.
C29_SelectionPreserved ==
    [][ /\ \A i \in PageIndex :
            SelectPage(i) =>
                /\ session_state'["current_page_index"] = i
                /\ "page" \in DOMAIN query_params'
                /\ query_params'["page"] = str(i)
        /\ \A i \in PageIndex :
            OpenSession("page" :> str(i)) => OnPage(i) ]_vars

\* C30: in every reachable session state current_page_index is a valid
\* index of the four pages: a URL page parameter that is not an integer or
\* is outside 0..3 is ignored and the index is then 0, the URL parameter is
\* consulted in the first pass of a session and in no other, after each
\* pass the index is the position of the selected page, and the query
\* parameter is rewritten only in a pass that changes the index.
C30_IndexAlwaysValid ==
    Navigated =>
        /\ "current_page_index" \in DOMAIN session_state
        /\ session_state["current_page_index"] \in 0..3
        /\ last_run.raised = "none"
        /\ session_state["current_page_index"] = last_run.selected_page
        /\ last_run.consulted <=> last_run.first
        /\ last_run.rewritten =>
              /\ last_run.index # session_state["current_page_index"]
              /\ query_params = ("page" :> str(session_state["current_page_index"]))
        /\ last_run.first =>
              LET given == "page" \in DOMAIN query_params
                  read  == py_int(query_params["page"])
                  valid == given /\ read.raised = "none" /\ read.value \in 0..3
              IN  session_state["current_page_index"] =
                      IF valid THEN read.value ELSE 0

\* A session opened at page=4, one past the last page: the parameter was
\* read and ignored, and the session is on the first page
C30_Witness ==
    /\ Navigated
    /\ last_run.consulted
    /\ query_params = ("page" :> <<"4">>)
    /\ session_state["current_page_index"] = 0
    /\ last_run.function = "home_page"

=============================================================================
